---- MODULE Spec2Model ----
(***************************************************************************)
(* A model of extract_map's ExtractMap<K, V, S>: a hash table of values    *)
(* that carry their own key (src/src/lib.rs), its MutGuard                 *)
(* (src/src/mut_guard.rs), its entry API (src/src/entry.rs) and its        *)
(* iterators (src/src/iter).                                               *)
(*                                                                         *)
(* The backing hashbrown::HashTable<V> is modelled by its contract: every  *)
(* stored value sits in a slot chosen by the hash it was stored with       *)
(* (field h of a slot), find(hash, eq) looks only at slots stored with     *)
(* that hash, and growing the table recomputes every slot's hash with the  *)
(* hasher closure the caller passes.  The order of the slots is the        *)
(* table's iteration order; a new value may land anywhere in it.           *)
(***************************************************************************)
EXTENDS Integers, Sequences, FiniteSets, TLC

\* Keys are 1..MaxKey (K = u64 in the examples and tests of the repository).
MaxKey == 3
\* No operation lets the table grow beyond MaxLen values.
MaxLen == 3
\* A caller breaks the key contract at most MaxMisuse times.
MaxMisuse == 1
\* Of two maps that are compared, neither grows beyond MaxEqLen values.
MaxEqLen == 2
\* An iterator handed to from_iter or extend yields at most MaxXs items.
MaxXs == 2
\* A map is borrowed by at most MaxIters iterators at a time.
MaxIters == 2
\* A caller deserializes at most MaxDocs documents, one after the other.
MaxDocs == 2

Keys == 1..MaxKey
Names == {"a", "b"}
\* The stored value type: doc_examples::User { id, name }.
Values == [id : Keys, name : Names]

\* Option<T>: None is the empty sequence, Some(x) the one-element sequence.
None == <<>>
Some(x) == <<x>>

\* impl ExtractKey<u64> for User: the key is the id field.
extract_key(v) == v.id

\* The hashers a map can be built with: S hashes key k to k % S.  S = 1 sends
\* every key to the same hash; S = 2 makes keys of the same parity collide
\* and tells the others apart.
Hashers == {1, 2}

\* hash_one(build_hasher, val)
hash_one(S, k) == k % S

VARIABLES
  build_hasher,  \* ExtractMap::build_hasher
  capacity,      \* number of values table can hold before it grows
  table,         \* ExtractMap::table: the slots in iteration order, [v, h]
  guard,         \* the live MutGuard's value (Some(v)), or None
  entry,         \* the live Entry: Occupied(slot) or Vacant(hash), or none
  iter,          \* the live lending IterMut: its queue of keys, or none
  extending,     \* an extend call is consuming its iterator
  op,            \* the last operation: its name, arguments and result
  abs,           \* the map as a partial function: key -> Option<V>
  gh,            \* what get_mut saw when it made the live guard
  it,            \* what the live IterMut has done so far
  misuse,        \* the ways a caller has broken the key contract so far
  other,         \* a second map, and the items a from_iter call is fed
  iters,         \* the live Iter and IntoIter iterators
  wire           \* the documents handed to deserialize so far

vars == <<build_hasher, capacity, table, guard, entry, iter, extending, op, abs, gh, it,
          misuse, other, iters, wire>>

Slot(v, h) == [v |-> v, h |-> h]

\* ExtractMap::iter: the values of table t, slot by slot.
SlotValues(t) == [i \in DOMAIN t |-> t[i].v]

\* The values the table holds, and those with extracted key k.
Content(t) == {t[i].v : i \in DOMAIN t}
StoredUnder(t, k) == {t[i].v : i \in {j \in DOMAIN t : extract_key(t[j].v) = k}}
KeysOf(t) == {extract_key(t[i].v) : i \in DOMAIN t}

TableFindByHash(t, hash, key) ==
  LET hits == {i \in DOMAIN t : t[i].h = hash}
  IN  IF hits = {} THEN 0 ELSE CHOOSE i \in hits : \A j \in hits : i <= j
\* HashTable::find(hash, |v| key == v.extract_key()): the first slot stored
\* with this hash whose value has this key; 0 when there is none.
TableFind(t, hash, key) ==
  LET hits == {i \in DOMAIN t : t[i].h = hash /\ extract_key(t[i].v) = key}
  IN  IF hits = {} THEN 0 ELSE CHOOSE i \in hits : \A j \in hits : i <= j

InsertAt(t, p, s) == SubSeq(t, 1, p - 1) \o <<s>> \o SubSeq(t, p, Len(t))
RemoveAtLast(t, i) == SubSeq(t, 1, Len(t) - 1)
RemoveAt(t, i) == SubSeq(t, 1, i - 1) \o SubSeq(t, i + 1, Len(t))

\* The hasher closure |v| hash_one(&self.build_hasher, v.extract_key()),
\* applied to every slot when the table moves its values.
Rehashed(t) ==
  [i \in DOMAIN t |-> Slot(t[i].v, hash_one(build_hasher, extract_key(t[i].v)))]

\* hashbrown's capacities: 0 for a table that never allocated, then 3, 7, 14...
GrownCapacity(c) == IF c < 3 THEN 3 ELSE IF c < 7 THEN 7 ELSE 2 * c

\* HashTable::entry reserves room for one more value before it probes: a full
\* table grows and rehashes every value.
Reserved(t, c) == IF Len(t) >= c THEN Rehashed(t) ELSE t
ReservedCapacity(t, c) == IF Len(t) >= c THEN GrownCapacity(c) ELSE c

\* ExtractMap::get on table t
GetIn(t, k) ==
  LET i == TableFind(t, hash_one(build_hasher, k), k)
  IN  IF i = 0 THEN None ELSE Some(t[i].v)

\* ExtractMap::get
get(k) == GetIn(table, k)

\* ExtractMap::contains_key
contains_key(k) == get(k) # None

\* ExtractMap::len, ExtractMap::is_empty
len == Len(table)
is_empty == Len(table) = 0

Op(name, key, arg, ret) == [name |-> name, key |-> key, arg |-> arg, ret |-> ret]
NoGuard == [k |-> 0, len0 |-> 0]
NoEntry == [kind |-> "None", key |-> 0, hash |-> 0, idx |-> 0]
NoIter == [live |-> FALSE, keys |-> <<>>]
NoIt == [ks |-> {}, img |-> {}, inj |-> TRUE, clash |-> FALSE, leaked |-> FALSE]
EmptyAbs == [k \in Keys |-> None]
\* No second map: an empty one that nothing is collected into.
NoOther == [t |-> <<>>, S |-> 1, c |-> 0, src |-> <<>>, xs |-> <<>>, call |-> ""]
\* The partial function a, as long as the caller has kept the key contract:
\* once it is broken the map is no partial function of its keys any more.
Abs(a, m) == IF m = {} THEN a ELSE EmptyAbs

\* ExtractMap::with_hasher / with_capacity_and_hasher: an empty table.
Init ==
  /\ build_hasher \in Hashers
  /\ capacity \in {0, 3}
  /\ table = <<>>
  /\ guard = None
  /\ entry = NoEntry
  /\ iter = NoIter
  /\ extending = FALSE
  /\ op = Op("new", 0, None, None)
  /\ abs = EmptyAbs
  /\ gh = NoGuard
  /\ it = NoIt
  /\ misuse = {}
  /\ other = NoOther
  /\ iters = <<>>
  /\ wire = <<>>

\* The Entry::Occupied arm of insert: replace(entry.into_mut(), value).
InsertOccupiedKeep(t, i, v) == t
InsertOccupied(t, i, v) == [t EXCEPT ![i].v = v]

InsertVacantUnhashed(t, p, v, hash) == InsertAt(t, p, Slot(v, 0))
\* The Entry::Vacant arm of insert: entry.insert(value) stores the value with
\* the hash the entry was probed with.
InsertVacant(t, p, v, hash) == InsertAt(t, p, Slot(v, hash))

InsertIntoNoProbe(t, c, v, p) ==
  [t |-> InsertAt(Reserved(t, c), IF p <= Len(t) + 1 THEN p ELSE 1,
                   Slot(v, hash_one(build_hasher, extract_key(v)))),
   c |-> ReservedCapacity(t, c), ret |-> None]
\* ExtractMap::insert on table t of capacity c, the new value landing at
\* position p when its key is new: the table and capacity after, the result.
InsertInto(t, c, v, p) ==
  LET key  == extract_key(v)
      hash == hash_one(build_hasher, key)
      r    == Reserved(t, c)
      i    == TableFind(r, hash, key)
  IN  IF i # 0
        THEN [t |-> InsertOccupied(r, i, v), c |-> ReservedCapacity(t, c),
              ret |-> Some(r[i].v)]
        ELSE [t |-> InsertVacant(r, p, v, hash),
              c |-> ReservedCapacity(t, c), ret |-> None]

\* Where insert may put v in table t: anywhere when its key is new (the slot
\* is the table's choice), nowhere new when the key is found.
Landings(t, c, v) ==
  IF TableFind(Reserved(t, c), hash_one(build_hasher, extract_key(v)), extract_key(v)) # 0
    THEN {1}
    ELSE 1..(Len(t) + 1)

\* No guard, entry or iterator borrows the map.
Idle == guard = None /\ entry.kind = "None" /\ ~iter.live /\ ~extending

\* ExtractMap::insert(value)
Insert(v) ==
  /\ Idle
  /\ \E p \in Landings(table, capacity, v) :
       LET r == InsertInto(table, capacity, v, p)
       IN  /\ Len(r.t) <= MaxLen
           /\ table' = r.t
           /\ capacity' = r.c
           /\ op' = Op("insert", extract_key(v), Some(v), r.ret)
  /\ abs' = Abs([abs EXCEPT ![extract_key(v)] = Some(v)], misuse)
  /\ UNCHANGED <<iters, wire, other, build_hasher, guard, entry, iter, extending, gh, it, misuse>>

RemoveFromKeep(t, k) ==
  LET i == TableFind(t, hash_one(build_hasher, k), k)
  IN  [t |-> t, ret |-> IF i # 0 THEN Some(t[i].v) ELSE None]
\* ExtractMap::remove on table t: the table after, the result.
RemoveFrom(t, k) ==
  LET i == TableFind(t, hash_one(build_hasher, k), k)
  IN  IF i # 0
        THEN [t |-> RemoveAt(t, i), ret |-> Some(t[i].v)]
        ELSE [t |-> t, ret |-> None]

\* ExtractMap::remove(key)
Remove(k) ==
  /\ Idle
  /\ table' = RemoveFrom(table, k).t
  /\ op' = Op("remove", k, None, RemoveFrom(table, k).ret)
  /\ abs' = Abs([abs EXCEPT ![k] = None], misuse)
  /\ UNCHANGED <<iters, wire, other, build_hasher, capacity, guard, entry, iter, extending, gh, it, misuse>>

\* ExtractMap::get_mut(key) on the current table: remove the value and hand
\* it out in a MutGuard.
TakeGuard(k) ==
  /\ table' = RemoveFrom(table, k).t
  /\ guard' = RemoveFrom(table, k).ret
  /\ gh' = IF RemoveFrom(table, k).ret = None THEN NoGuard
           ELSE [k |-> k, len0 |-> Len(table)]
  /\ abs' = Abs([abs EXCEPT ![k] = None], misuse)

\* ExtractMap::get_mut(key)
GetMut(k) ==
  /\ Idle
  /\ TakeGuard(k)
  /\ op' = Op("get_mut", k, None, RemoveFrom(table, k).ret)
  /\ UNCHANGED <<iters, wire, other, build_hasher, capacity, entry, iter, extending, it, misuse>>

\* MutGuard::deref_mut: the caller writes the held value, key field included.
GuardMutate(nv) ==
  /\ guard # None
  /\ nv # guard[1]
  /\ guard' = Some(nv)
  /\ op' = Op("deref_mut", gh.k, Some(nv), None)
  /\ UNCHANGED <<iters, wire, other, build_hasher, capacity, table, entry, iter, extending, abs, gh, it, misuse>>

\* MutGuard::drop: self.map.insert(value).  op.ret is what insert returned,
\* which drop throws away.
GuardDrop ==
  /\ guard # None
  /\ \E p \in Landings(table, capacity, guard[1]) :
       LET r == InsertInto(table, capacity, guard[1], p)
       IN  /\ table' = r.t
           /\ capacity' = r.c
           /\ op' = Op("guard_drop", gh.k, guard, r.ret)
  /\ guard' = None
  /\ abs' = Abs([abs EXCEPT ![extract_key(guard[1])] = guard], misuse)
  /\ gh' = NoGuard
  /\ it' = IF iter.live /\ misuse = {}
             THEN [it EXCEPT !.img = @ \cup {extract_key(guard[1])},
                             !.inj = @ /\ extract_key(guard[1]) \notin it.img,
                             !.clash = @ \/ (extract_key(guard[1]) \in it.ks \ {gh.k})]
             ELSE it
  /\ UNCHANGED <<iters, wire, other, build_hasher, entry, iter, extending, misuse>>

\* std::mem::forget(guard): the guard is leaked, drop never runs.
GuardForget ==
  /\ guard # None
  /\ guard' = None
  /\ op' = Op("guard_forget", gh.k, None, None)
  /\ gh' = NoGuard
  /\ it' = IF iter.live /\ misuse = {} THEN [it EXCEPT !.leaked = TRUE] ELSE it
  /\ UNCHANGED <<iters, wire, other, build_hasher, capacity, table, entry, iter, extending, abs, misuse>>

\* Extend::extend(iter): for item in iter { self.insert(item) }.  The caller's
\* iterator hands over one item per step and ends when it chooses to.
ExtendBegin ==
  /\ Idle
  /\ extending' = TRUE
  /\ op' = Op("extend", 0, None, None)
  /\ UNCHANGED <<iters, wire, other, build_hasher, capacity, table, guard, entry, iter, abs, gh, it, misuse>>

ExtendItem(v) ==
  /\ extending
  /\ \E p \in Landings(table, capacity, v) :
       LET r == InsertInto(table, capacity, v, p)
       IN  /\ Len(r.t) <= MaxLen
           /\ table' = r.t
           /\ capacity' = r.c
  /\ op' = Op("extend_item", extract_key(v), Some(v), None)
  /\ abs' = Abs([abs EXCEPT ![extract_key(v)] = Some(v)], misuse)
  /\ UNCHANGED <<iters, wire, other, build_hasher, guard, entry, iter, extending, gh, it, misuse>>

ExtendEnd ==
  /\ extending
  /\ extending' = FALSE
  /\ op' = Op("extend_end", 0, None, None)
  /\ UNCHANGED <<iters, wire, other, build_hasher, capacity, table, guard, entry, iter, abs, gh, it, misuse>>

\* ExtractMap::raw_entry(key): self.table.entry(hash, eq, hasher), the probe
\* ExtractMap::entry starts from.
raw_entry(t, c, k) ==
  LET hash == hash_one(build_hasher, k)
      r    == Reserved(t, c)
      i    == TableFind(r, hash, k)
  IN  [t |-> r, c |-> ReservedCapacity(t, c),
       e |-> [kind |-> IF i # 0 THEN "Occupied" ELSE "Vacant",
              key |-> k, hash |-> hash, idx |-> i]]

from_raw_swapped(raw) ==
  [raw EXCEPT !.kind = IF raw.kind = "Occupied" THEN "Vacant" ELSE "Occupied"]
\* Entry::from_raw: RawEntry::Occupied becomes Entry::Occupied and
\* RawEntry::Vacant Entry::Vacant, around the same raw entry.
from_raw(raw) ==
  [raw EXCEPT !.kind = IF raw.kind = "Occupied" THEN "Occupied" ELSE "Vacant"]

\* ExtractMap::entry(key)
EntryNew(k) ==
  /\ Idle
  /\ LET r == raw_entry(table, capacity, k)
     IN  /\ table' = r.t
         /\ capacity' = r.c
         /\ entry' = from_raw(r.e)
         /\ op' = Op("entry", k, None, IF r.e.idx # 0 THEN Some(r.t[r.e.idx].v) ELSE None)
  /\ UNCHANGED <<iters, wire, other, build_hasher, guard, iter, extending, abs, gh, it, misuse>>

\* What a caller breaks by handing an entry a value: nothing when the value
\* has the key the entry was probed with.
ValueMisuse(v) == IF extract_key(v) # entry.key THEN {"value"} ELSE {}
\* What a caller breaks by writing nv over old in place: nothing when the
\* key field is left alone.
MutationMisuse(old, nv) ==
  IF extract_key(nv) # extract_key(old) THEN {"mutation"} ELSE {}

\* hashbrown VacantEntry::insert: the value goes into the slot found for the
\* hash the entry was probed with; the value's own key is not looked at.
VacantPut(v, name) ==
  /\ Len(table) < MaxLen
  /\ \E p \in 1..(Len(table) + 1) :
       /\ table' = InsertAt(table, p, Slot(v, entry.hash))
       /\ entry' = [entry EXCEPT !.kind = "Occupied", !.idx = p]
  /\ op' = Op(name, entry.key, Some(v), Some(v))
  /\ abs' = Abs([abs EXCEPT ![extract_key(v)] = Some(v)], misuse \cup ValueMisuse(v))
  /\ misuse' = misuse \cup ValueMisuse(v)

OccupiedPutKeep(nv) == table
OccupiedPutRehomed(nv) ==
  [table EXCEPT ![entry.idx] = Slot(nv, hash_one(build_hasher, extract_key(nv)))]
\* A write through &mut V of an occupied entry: the slot keeps its place.
OccupiedPut(nv) == [table EXCEPT ![entry.idx].v = nv]

AbsReplace(old, nv) ==
  [k \in Keys |-> IF k = extract_key(nv) THEN Some(nv)
                  ELSE IF k = extract_key(old) THEN None ELSE abs[k]]

\* Entry::insert(value)
EntryInsert(v) ==
  /\ entry.kind # "None"
  /\ IF entry.kind = "Occupied"
       THEN /\ table' = OccupiedPut(v)
            /\ entry' = entry
            /\ op' = Op("entry_insert", entry.key, Some(v), Some(v))
            /\ abs' = Abs(AbsReplace(table[entry.idx].v, v), misuse \cup ValueMisuse(v))
            /\ misuse' = misuse \cup ValueMisuse(v)
       ELSE VacantPut(v, "entry_insert")
  /\ UNCHANGED <<iters, wire, other, build_hasher, capacity, guard, iter, extending, gh, it>>

OrInsertOverwrite(d) ==
  /\ entry.kind # "None"
  /\ IF entry.kind = "Occupied"
       THEN /\ table' = OccupiedPut(d)
            /\ op' = Op("or_insert", entry.key, Some(d), Some(d))
            /\ abs' = Abs(AbsReplace(table[entry.idx].v, d), misuse)
            /\ UNCHANGED <<entry, misuse>>
       ELSE VacantPut(d, "or_insert")
  /\ UNCHANGED <<iters, wire, other, build_hasher, capacity, guard, iter, extending, gh, it>>
\* Entry::or_insert(default)
OrInsert(d) ==
  /\ entry.kind # "None"
  /\ IF entry.kind = "Occupied"
       THEN /\ op' = Op("or_insert", entry.key, Some(d), Some(table[entry.idx].v))
            /\ UNCHANGED <<table, entry, abs, misuse>>
       ELSE VacantPut(d, "or_insert")
  /\ UNCHANGED <<iters, wire, other, build_hasher, capacity, guard, iter, extending, gh, it>>

\* Entry::or_insert_with(default): default() runs only for a vacant entry.
OrInsertWith(d) ==
  /\ entry.kind # "None"
  /\ IF entry.kind = "Occupied"
       THEN /\ op' = Op("or_insert_with", entry.key, None, Some(table[entry.idx].v))
            /\ UNCHANGED <<table, entry, abs, misuse>>
       ELSE VacantPut(d, "or_insert_with")
  /\ UNCHANGED <<iters, wire, other, build_hasher, capacity, guard, iter, extending, gh, it>>

\* A write of nv through the &mut V an occupied entry hands out.
WriteInPlace(nv, name, e) ==
  /\ entry.kind = "Occupied"
  /\ table' = OccupiedPut(nv)
  /\ entry' = e
  /\ op' = Op(name, entry.key, Some(nv), Some(table[entry.idx].v))
  /\ abs' = Abs(AbsReplace(table[entry.idx].v, nv), misuse \cup MutationMisuse(table[entry.idx].v, nv))
  /\ misuse' = misuse \cup MutationMisuse(table[entry.idx].v, nv)
  /\ UNCHANGED <<iters, wire, other, build_hasher, capacity, guard, iter, extending, gh, it>>

AndModifySkip(nv) ==
  /\ entry.kind # "None"
  /\ op' = Op("and_modify", entry.key,
              IF entry.kind = "Occupied" THEN Some(nv) ELSE None, None)
  /\ UNCHANGED <<iters, wire, other, build_hasher, capacity, table, guard, entry, iter, extending,
                 abs, gh, it, misuse>>
\* Entry::and_modify(f): f runs on the stored value of an occupied entry.
AndModify(nv) ==
  \/ WriteInPlace(nv, "and_modify", entry)
  \/ /\ entry.kind = "Vacant"
     /\ op' = Op("and_modify", entry.key, None, None)
     /\ UNCHANGED <<iters, wire, other, build_hasher, capacity, table, guard, entry, iter, extending,
                    abs, gh, it, misuse>>

\* OccupiedEntry::get_mut, and a write through the reference
OccupiedGetMut(nv) == WriteInPlace(nv, "occupied_get_mut", entry)

\* OccupiedEntry::into_mut, and a write through the reference
OccupiedIntoMut(nv) == WriteInPlace(nv, "into_mut", NoEntry)

\* OccupiedEntry::insert(value): replace(get_mut(), value)
OccupiedInsert(v) ==
  /\ entry.kind = "Occupied"
  /\ table' = OccupiedPut(v)
  /\ op' = Op("occupied_insert", entry.key, Some(v), Some(table[entry.idx].v))
  /\ abs' = Abs(AbsReplace(table[entry.idx].v, v), misuse \cup ValueMisuse(v))
  /\ misuse' = misuse \cup ValueMisuse(v)
  /\ UNCHANGED <<iters, wire, other, build_hasher, capacity, guard, entry, iter, extending, gh, it>>

\* OccupiedEntry::remove
OccupiedRemove ==
  /\ entry.kind = "Occupied"
  /\ table' = RemoveAt(table, entry.idx)
  /\ entry' = NoEntry
  /\ op' = Op("occupied_remove", entry.key, None, Some(table[entry.idx].v))
  /\ abs' = Abs([abs EXCEPT ![extract_key(table[entry.idx].v)] = None], misuse)
  /\ UNCHANGED <<iters, wire, other, build_hasher, capacity, guard, iter, extending, gh, it, misuse>>

\* VacantEntry::insert(value)
VacantInsert(v) ==
  /\ entry.kind = "Vacant"
  /\ VacantPut(v, "vacant_insert")
  /\ UNCHANGED <<iters, wire, other, build_hasher, capacity, guard, iter, extending, gh, it>>

\* The entry goes out of scope.
EntryDrop ==
  /\ entry.kind # "None"
  /\ entry' = NoEntry
  /\ op' = Op("entry_drop", entry.key, None, None)
  /\ UNCHANGED <<iters, wire, other, build_hasher, capacity, table, guard, iter, extending, abs, gh, it, misuse>>

\* for v in &mut map: hashbrown's IterMut hands out &mut V to the value in
\* slot i, and the caller writes nv through it.
IterMutInPlace(i, nv) ==
  /\ Idle
  /\ i \in DOMAIN table
  /\ table' = [table EXCEPT ![i].v = nv]
  /\ op' = Op("iter_mut_in_place", extract_key(table[i].v), Some(nv), Some(table[i].v))
  /\ abs' = Abs(AbsReplace(table[i].v, nv), misuse \cup MutationMisuse(table[i].v, nv))
  /\ misuse' = misuse \cup MutationMisuse(table[i].v, nv)
  /\ UNCHANGED <<iters, wire, other, build_hasher, capacity, guard, entry, iter, extending, gh, it>>

KeySnapshotShort(t) ==
  IF t = <<>> THEN <<>> ELSE Tail([i \in DOMAIN t |-> extract_key(t[i].v)])
\* map.iter().map(|v| v.extract_key().clone()).collect(): the keys, cloned in
\* the table's iteration order.
KeySnapshot(t) == [i \in DOMAIN t |-> extract_key(t[i].v)]

\* ExtractMap::iter_mut -> IterMut::new
IterMutNew ==
  /\ Idle
  /\ iter' = [live |-> TRUE, keys |-> KeySnapshot(table)]
  /\ it' = IF misuse = {} THEN [NoIt EXCEPT !.ks = KeysOf(table)] ELSE NoIt
  /\ op' = Op("iter_mut", 0, None, None)
  /\ UNCHANGED <<iters, wire, other, build_hasher, capacity, table, guard, entry, extending, abs, gh, misuse>>

IterMutNextNoPop ==
  /\ iter.live
  /\ guard = None
  /\ IF iter.keys = <<>>
       THEN /\ op' = Op("next", 0, None, None)
            /\ UNCHANGED <<table, guard, gh, abs, iter>>
       ELSE /\ TakeGuard(Head(iter.keys))
            /\ iter' = iter
            /\ op' = Op("next", Head(iter.keys), None, RemoveFrom(table, Head(iter.keys)).ret)
  /\ UNCHANGED <<iters, wire, other, build_hasher, capacity, entry, extending, it, misuse>>
\* IterMut::next: let key = self.keys.pop_front()?; self.map.get_mut(&key)
IterMutNext ==
  /\ iter.live
  /\ guard = None
  /\ IF iter.keys = <<>>
       THEN /\ op' = Op("next", 0, None, None)
            /\ UNCHANGED <<table, guard, gh, abs, iter>>
       ELSE /\ TakeGuard(Head(iter.keys))
            /\ iter' = [iter EXCEPT !.keys = Tail(@)]
            /\ op' = Op("next", Head(iter.keys), None, RemoveFrom(table, Head(iter.keys)).ret)
  /\ UNCHANGED <<iters, wire, other, build_hasher, capacity, entry, extending, it, misuse>>

\* The IterMut goes out of scope.
IterMutDrop ==
  /\ iter.live
  /\ guard = None
  /\ iter' = NoIter
  /\ it' = NoIt
  /\ op' = Op("iter_drop", 0, None, None)
  /\ UNCHANGED <<iters, wire, other, build_hasher, capacity, table, guard, entry, extending, abs, gh, misuse>>

\* A write of nv through the live occupied entry, or over slot i, that leaves
\* the key field alone.
EntryKeepsKey(nv) ==
  entry.kind = "Occupied" => MutationMisuse(table[entry.idx].v, nv) = {}
SlotKeepsKey(i, nv) ==
  i \in DOMAIN table /\ MutationMisuse(table[i].v, nv) = {}

\* The operations of a caller that keeps the key contract: a value handed to
\* an entry has the entry's key, a write in place leaves the key field alone.
Next ==
  \/ \E v \in Values : Insert(v)
  \/ \E k \in Keys : Remove(k)
  \/ \E k \in Keys : GetMut(k)
  \/ \E nv \in Values : GuardMutate(nv)
  \/ GuardDrop
  \/ GuardForget
  \/ ExtendBegin
  \/ \E v \in Values : ExtendItem(v)
  \/ ExtendEnd
  \/ \E k \in Keys : EntryNew(k)
  \/ \E v \in Values : ValueMisuse(v) = {} /\ EntryInsert(v)
  \/ \E v \in Values : ValueMisuse(v) = {} /\ OrInsert(v)
  \/ \E v \in Values : ValueMisuse(v) = {} /\ OrInsertWith(v)
  \/ \E v \in Values : ValueMisuse(v) = {} /\ VacantInsert(v)
  \/ \E v \in Values : ValueMisuse(v) = {} /\ OccupiedInsert(v)
  \/ \E nv \in Values : EntryKeepsKey(nv) /\ AndModify(nv)
  \/ \E nv \in Values : EntryKeepsKey(nv) /\ OccupiedGetMut(nv)
  \/ \E nv \in Values : EntryKeepsKey(nv) /\ OccupiedIntoMut(nv)
  \/ OccupiedRemove
  \/ EntryDrop
  \/ \E i \in DOMAIN table, nv \in Values : SlotKeepsKey(i, nv) /\ IterMutInPlace(i, nv)
  \/ IterMutNew
  \/ IterMutNext
  \/ IterMutDrop

\* The caller may break the key contract once more.
MayMisuse == Cardinality(misuse) < MaxMisuse

\* The operations of a caller that may also break the key contract.
UncheckedNext ==
  \/ Next
  \/ \E v \in Values : MayMisuse /\ ValueMisuse(v) # {} /\ EntryInsert(v)
  \/ \E v \in Values : MayMisuse /\ ValueMisuse(v) # {} /\ OrInsert(v)
  \/ \E v \in Values : MayMisuse /\ ValueMisuse(v) # {} /\ OrInsertWith(v)
  \/ \E v \in Values : MayMisuse /\ ValueMisuse(v) # {} /\ VacantInsert(v)
  \/ \E v \in Values : MayMisuse /\ ValueMisuse(v) # {} /\ OccupiedInsert(v)
  \/ \E nv \in Values : MayMisuse /\ ~EntryKeepsKey(nv) /\ AndModify(nv)
  \/ \E nv \in Values : MayMisuse /\ ~EntryKeepsKey(nv) /\ OccupiedGetMut(nv)
  \/ \E nv \in Values : MayMisuse /\ ~EntryKeepsKey(nv) /\ OccupiedIntoMut(nv)
  \/ \E i \in DOMAIN table, nv \in Values : MayMisuse /\ ~SlotKeepsKey(i, nv) /\ IterMutInPlace(i, nv)

\* The operations of a caller that keeps the key contract but for a write
\* through the entry API that changes a key.
EntryMutNext ==
  \/ Next
  \/ \E nv \in Values : MayMisuse /\ ~EntryKeepsKey(nv) /\ AndModify(nv)
  \/ \E nv \in Values : MayMisuse /\ ~EntryKeepsKey(nv) /\ OccupiedGetMut(nv)
  \/ \E nv \in Values : MayMisuse /\ ~EntryKeepsKey(nv) /\ OccupiedIntoMut(nv)

Spec == Init /\ [][Next]_vars

EntryMutSpec == Init /\ [][EntryMutNext]_vars

UncheckedSpec == Init /\ [][UncheckedNext]_vars

\* The map t as a partial function of its keys.
AbsOf(t) ==
  [k \in Keys |-> IF StoredUnder(t, k) = {} THEN None
                  ELSE Some(CHOOSE v \in StoredUnder(t, k) : TRUE)]

eq_any_len(t1, t2, S2) ==
  \A i \in DOMAIN t1 :
    LET v == t1[i].v
        k == extract_key(v)
        j == TableFind(t2, hash_one(S2, k), k)
    IN  j # 0 /\ k = extract_key(t2[j].v) /\ v = t2[j].v
\* PartialEq::eq(self, other), self holding t1 and other t2 under hasher S2:
\* false when the lengths differ, else every value of self is looked up in
\* other by its key and compared with what is found.
eq(t1, t2, S2) ==
  IF Len(t1) # Len(t2)
    THEN FALSE
    ELSE \A i \in DOMAIN t1 :
           LET v == t1[i].v
               k == extract_key(v)
               j == TableFind(t2, hash_one(S2, k), k)
           IN  j # 0 /\ k = extract_key(t2[j].v) /\ v = t2[j].v

\* Two maps, each built with a hasher and a capacity of its own.
EqInit ==
  /\ build_hasher \in Hashers
  /\ capacity \in {0, 3}
  /\ table = <<>>
  /\ guard = None
  /\ entry = NoEntry
  /\ iter = NoIter
  /\ extending = FALSE
  /\ op = Op("new", 0, None, None)
  /\ abs = EmptyAbs
  /\ gh = NoGuard
  /\ it = NoIt
  /\ misuse = {}
  /\ \E S \in Hashers, c \in {0, 3} : other = [NoOther EXCEPT !.S = S, !.c = c]
  /\ iters = <<>>
  /\ wire = <<>>

\* The caller turns to its other map: the two maps change places.
EqFlip ==
  /\ Idle
  /\ other.call = ""
  /\ table' = other.t
  /\ build_hasher' = other.S
  /\ capacity' = other.c
  /\ other' = [other EXCEPT !.t = table, !.S = build_hasher, !.c = capacity]
  /\ abs' = AbsOf(other.t)
  /\ op' = Op("flip", 0, None, None)
  /\ UNCHANGED <<iters, wire, guard, entry, iter, extending, gh, it, misuse>>

\* Two maps that are inserted into and removed from, neither growing beyond
\* MaxEqLen values.
EqNext ==
  \/ \E v \in Values :
       /\ Len(table) < MaxEqLen \/ contains_key(extract_key(v))
       /\ Insert(v)
  \/ \E k \in Keys : Remove(k)
  \/ EqFlip
EqSpec == EqInit /\ [][EqNext]_vars

\* The item sequences an iterator can yield.
Xs == UNION {[1..n -> Values] : n \in 0..MaxXs}

\* HashTable::with_capacity(n): room for 0, 3, 7 or 14 values.
WithCapacity(n) ==
  IF n = 0 THEN 0 ELSE IF n <= 3 THEN 3 ELSE IF n <= 7 THEN 7 ELSE 14

\* FromIterator::from_iter(iter), up to its loop: a fresh map is built by
\* with_capacity_and_hasher(iter.size_hint().0, S::default()).  src are the
\* items iter will yield and hint its size hint; t0 (hashed by S0) is the map
\* iter borrows from, empty when the items come from elsewhere.
FromIterBegin(src, hint, S2, t0, S0) ==
  /\ Idle
  /\ other.call = ""
  /\ other' = [t |-> t0, S |-> S0, c |-> 0, src |-> src, xs |-> <<>>,
               call |-> "from_iter"]
  /\ table' = <<>>
  /\ build_hasher' = S2
  /\ capacity' = WithCapacity(hint)
  /\ abs' = EmptyAbs
  /\ op' = Op("from_iter_begin", 0, None, None)
  /\ UNCHANGED <<iters, wire, guard, entry, iter, extending, gh, it, misuse>>

\* Extend::extend(iter), up to its loop, for an iterator that will yield src:
\* the map as it is before the call is kept in other.t.
ExtendXsBegin(src) ==
  /\ Idle
  /\ other.call = ""
  /\ other' = [t |-> table, S |-> build_hasher, c |-> capacity, src |-> src,
               xs |-> <<>>, call |-> "extend"]
  /\ op' = Op("extend_begin", 0, None, None)
  /\ UNCHANGED <<iters, wire, build_hasher, capacity, table, guard, entry, iter,
                 extending, abs, gh, it, misuse>>

FeedItemKeepFirst ==
  /\ other.call # ""
  /\ other.src # <<>>
  /\ LET v == Head(other.src)
     IN  /\ \E p \in Landings(table, capacity, v) :
              LET r == InsertInto(table, capacity, v, p)
              IN  /\ table' = IF r.ret = None THEN r.t ELSE table
                  /\ capacity' = r.c
         /\ op' = Op("feed_item", extract_key(v), Some(v), None)
         /\ abs' = Abs([abs EXCEPT ![extract_key(v)] = Some(v)], misuse)
         /\ other' = [other EXCEPT !.src = Tail(@), !.xs = Append(@, v)]
  /\ UNCHANGED <<iters, wire, build_hasher, guard, entry, iter, extending, gh, it, misuse>>
\* The loop body of from_iter and of extend: insert(next item).
FeedItem ==
  /\ other.call # ""
  /\ other.src # <<>>
  /\ LET v == Head(other.src)
     IN  /\ \E p \in Landings(table, capacity, v) :
              LET r == InsertInto(table, capacity, v, p)
              IN  /\ table' = r.t
                  /\ capacity' = r.c
         /\ op' = Op("feed_item", extract_key(v), Some(v), None)
         /\ abs' = Abs([abs EXCEPT ![extract_key(v)] = Some(v)], misuse)
         /\ other' = [other EXCEPT !.src = Tail(@), !.xs = Append(@, v)]
  /\ UNCHANGED <<iters, wire, build_hasher, guard, entry, iter, extending, gh, it, misuse>>

\* The iterator is exhausted: from_iter returns the map, extend returns.
FeedEnd ==
  /\ other.call # ""
  /\ other.src = <<>>
  /\ op.name # other.call
  /\ op' = Op(other.call, 0, None, None)
  /\ UNCHANGED <<iters, wire, other, build_hasher, capacity, table, guard, entry, iter,
                 extending, abs, gh, it, misuse>>

\* A map built by insert and remove, then collected from its iter(), or
\* extended, or left for a map collected from other items.
CollectNext ==
  \/ \E v \in Values : other.call = "" /\ Insert(v)
  \/ \E k \in Keys : other.call = "" /\ Remove(k)
  \/ \E S2 \in Hashers :
       FromIterBegin(SlotValues(table), Len(table), S2, table, build_hasher)
  \/ \E xs \in Xs, hint \in 0..MaxXs, S2 \in Hashers :
       hint <= Len(xs) /\ FromIterBegin(xs, hint, S2, <<>>, S2)
  \/ \E xs \in Xs : ExtendXsBegin(xs)
  \/ FeedItem
  \/ FeedEnd
CollectSpec == Init /\ [][CollectNext]_vars

\* for_each drives a traversal: while the IterMut lives the next step is
\* taken, and a guard handed to the callback is released (or leaked) when
\* the callback returns.
ForEachSpec ==
  Init /\ [][Next]_vars /\ WF_vars(IterMutNext) /\ WF_vars(GuardDrop \/ GuardForget)

\* A new iterator over slots: hashbrown's Iter borrows the table and walks
\* it slot by slot (slots is empty, it reads table); IntoIter owns the slots
\* of the map it consumed.  pos is the slot it yields next, out the values it
\* has yielded, done that it has reported exhaustion.
Cursor(kind, slots) ==
  [kind |-> kind, slots |-> slots, pos |-> 1, out |-> <<>>, done |-> FALSE]

\* The slots iterator c walks.
Walked(c) == IF c.kind = "owned" THEN c.slots ELSE table

\* No iterator owns the map's slots.
NoneOwned == \A i \in DOMAIN iters : iters[i].kind # "owned"

\* ExtractMap::iter / IntoIterator for &ExtractMap: map.table.iter()
IterNew ==
  /\ Idle
  /\ NoneOwned
  /\ Len(iters) < MaxIters
  /\ iters' = Append(iters, Cursor("ref", <<>>))
  /\ op' = Op("iter", 0, None, None)
  /\ UNCHANGED <<wire, other, build_hasher, capacity, table, guard, entry, iter,
                 extending, abs, gh, it, misuse>>

\* IntoIterator for ExtractMap: map.table.into_iter().  The map is consumed;
\* what the caller has afterwards is at most a map made anew.
IntoIterNew ==
  /\ Idle
  /\ iters = <<>>
  /\ iters' = <<Cursor("owned", table)>>
  /\ table' = <<>>
  /\ capacity' = 0
  /\ abs' = EmptyAbs
  /\ op' = Op("into_iter", 0, None, None)
  /\ UNCHANGED <<wire, other, build_hasher, guard, entry, iter, extending, gh, it,
                 misuse>>

IterNextSkip(i) ==
  /\ i \in DOMAIN iters
  /\ LET c == iters[i]
     IN  IF c.pos <= Len(Walked(c))
           THEN /\ iters' = [iters EXCEPT ![i].pos = @ + 2,
                                          ![i].out = Append(@, Walked(c)[c.pos].v)]
                /\ op' = Op("iter_next", i, None, Some(Walked(c)[c.pos].v))
           ELSE /\ iters' = [iters EXCEPT ![i].done = TRUE]
                /\ op' = Op("iter_next", i, None, None)
  /\ UNCHANGED <<wire, other, build_hasher, capacity, table, guard, entry, iter,
                 extending, abs, gh, it, misuse>>
\* Iterator::next of Iter and of IntoIter, self.0.next(): the value of the next
\* slot, or None past the last one.  op.key names the iterator.
IterNext(i) ==
  /\ i \in DOMAIN iters
  /\ LET c == iters[i]
     IN  IF c.pos <= Len(Walked(c))
           THEN /\ iters' = [iters EXCEPT ![i].pos = @ + 1,
                                          ![i].out = Append(@, Walked(c)[c.pos].v)]
                /\ op' = Op("iter_next", i, None, Some(Walked(c)[c.pos].v))
           ELSE /\ iters' = [iters EXCEPT ![i].done = TRUE]
                /\ op' = Op("iter_next", i, None, None)
  /\ UNCHANGED <<wire, other, build_hasher, capacity, table, guard, entry, iter,
                 extending, abs, gh, it, misuse>>

\* An Iter or IntoIter goes out of scope.
IterEnd(i) ==
  /\ i \in DOMAIN iters
  /\ iters' = SubSeq(iters, 1, i - 1) \o SubSeq(iters, i + 1, Len(iters))
  /\ op' = Op("iter_end", i, None, None)
  /\ UNCHANGED <<wire, other, build_hasher, capacity, table, guard, entry, iter,
                 extending, abs, gh, it, misuse>>

\* A map that is inserted into and removed from while nothing borrows it, and
\* iterated over by reference or by value.
IterateNext ==
  \/ \E v \in Values : iters = <<>> /\ Insert(v)
  \/ \E k \in Keys : iters = <<>> /\ Remove(k)
  \/ IterNew
  \/ IntoIterNew
  \/ \E i \in 1..MaxIters : IterNext(i)
  \/ \E i \in 1..MaxIters : IterEnd(i)
IterateSpec == Init /\ [][IterateNext]_vars

\* The keys a map document gives its records, and the documents a
\* self-describing format can hold: a sequence of records, or a map from
\* keys to records, its entries in the order the format yields them.
OuterKeys == {"x", "y"}
Entries == UNION {[1..n -> [key : OuterKeys, value : Values]] : n \in 0..MaxXs}
Docs == {[shape |-> "seq", items |-> xs] : xs \in Xs}
          \cup {[shape |-> "map", items |-> es] : es \in Entries}

\* The records a document holds, in the order it holds them.
RecordsOf(doc) ==
  [i \in DOMAIN doc.items |->
     IF doc.shape = "map" THEN doc.items[i].value ELSE doc.items[i]]

\* Visitor::visit_seq: the elements seq.next_element() yields, in order.
visit_seq(elements) == [i \in DOMAIN elements |-> elements[i]]

visit_map_reversed(entries) ==
  [i \in DOMAIN entries |-> entries[Len(entries) + 1 - i].value]
\* Visitor::visit_map: the entries map.next_entry::<IgnoredAny, V>() yields,
\* in order, each cut down to its value by |(_, v)| v.
visit_map(entries) == [i \in DOMAIN entries |-> entries[i].value]

\* deserialize_any calls the visitor method of the document's shape; the
\* records that method hands to collect().
Records(doc) ==
  IF doc.shape = "map" THEN visit_map(doc.items) ELSE visit_seq(doc.items)

\* No call is under way, and the caller has a document left.
MayDeserialize ==
  /\ Idle
  /\ other.call = "" \/ (other.call = "deserialize" /\ op.name = "deserialize")
  /\ Len(wire) < MaxDocs

\* Deserialize::deserialize of a well-formed document, up to the loop of
\* from_iter: a fresh map with the hasher S::default() gives (S2) and room for
\* the size hint that reaches from_iter.  The map deserialized before is kept
\* in other.t.
Deserialize(doc, hint, S2) ==
  /\ MayDeserialize
  /\ wire' = Append(wire, doc)
  /\ other' = [t |-> table, S |-> build_hasher, c |-> capacity,
               src |-> Records(doc), xs |-> <<>>, call |-> "deserialize"]
  /\ table' = <<>>
  /\ build_hasher' = S2
  /\ capacity' = WithCapacity(hint)
  /\ abs' = EmptyAbs
  /\ op' = Op("deserialize_begin", 0, None, None)
  /\ UNCHANGED <<iters, guard, entry, iter, extending, gh, it, misuse>>

\* A caller deserializes a document and then another one that holds the same
\* records, in either shape and under any outer keys.
SerdeNext ==
  \/ /\ MayDeserialize
     /\ \E doc \in Docs, hint \in 0..MaxXs, S2 \in Hashers :
          /\ hint <= Len(doc.items)
          /\ IF wire = <<>> THEN TRUE
                ELSE RecordsOf(doc) = RecordsOf(wire[Len(wire)])
          /\ Deserialize(doc, hint, S2)
  \/ FeedItem
  \/ FeedEnd
SerdeSpec == Init /\ [][SerdeNext]_vars

\* A map that is only ever inserted into.
InsertNext == \E v \in Values : Insert(v)
InsertSpec == Init /\ [][InsertNext]_vars

-----------------------------------------------------------------------------
\* No two stored values have the same extracted key.
NoDuplicateKeys == \A i, j \in DOMAIN table :
  extract_key(table[i].v) = extract_key(table[j].v) => i = j

\* Every stored value sits in the slot of its current key's hash, and get
\* finds it under its key.
WellPlaced == \A i \in DOMAIN table :
  /\ table[i].h = hash_one(build_hasher, extract_key(table[i].v))
  /\ get(extract_key(table[i].v)) = Some(table[i].v)

\* C1: after any sequence of insert calls on an initially empty map, len() is
\* the number of distinct keys inserted, and get(key) is the last value
\* inserted with that key (abs records the last value inserted per key).
C1_InsertsLastWins ==
  /\ len = Cardinality({k \in Keys : abs[k] # None})
  /\ \A k \in Keys : get(k) = abs[k]

\* C1's case: an insert has replaced an earlier value of the same key while
\* another key is stored.
C1_Witness ==
  op.name = "insert" /\ op.ret # None /\ op.ret # op.arg /\ len = 2

\* C2 as stated: whatever values the listed operations are handed (in-place
\* writes that change a key are not among them), no two stored values have
\* the same extracted key.
C2_NoDuplicateKeysAnyValue == "mutation" \notin misuse => NoDuplicateKeys

\* C2 as amended: no two stored values have the same extracted key, as long
\* as every value handed to an entry had the key the entry was probed with
\* (and no in-place write changed a key).
C2_NoDuplicateKeys == misuse = {} => NoDuplicateKeys

\* C2's case: an entry has stored a value of its own key next to another one.
C2_Witness ==
  /\ op.name \in {"entry_insert", "or_insert", "or_insert_with", "vacant_insert"}
  /\ misuse = {}
  /\ entry.kind = "Occupied"
  /\ op.arg = Some(table[entry.idx].v)
  /\ len >= 2

\* C3 as stated: with no guard live every stored value is well placed, also
\* after in-place writes through OccupiedEntry::get_mut, into_mut,
\* Entry::and_modify and for v in &mut map.
C3_WellPlacedAlways == (guard = None /\ "value" \notin misuse) => WellPlaced

\* C3 as amended: with no guard live every stored value is well placed, as
\* long as no in-place write changed a key field and every value handed to an
\* entry had the entry's key.
C3_WellPlaced == (guard = None /\ misuse = {}) => WellPlaced

\* C3's case: a value was written in place, its key field left alone, in a
\* map of two values or more, and is found under its key.
C3_Witness ==
  /\ op.name \in {"and_modify", "occupied_get_mut", "into_mut", "iter_mut_in_place"}
  /\ misuse = {}
  /\ op.arg # None /\ op.arg # op.ret
  /\ get(op.key) = op.arg
  /\ len >= 2

\* The value a guard holds, the values the map and its guard hold together,
\* and the values a step took out of them without handing them to the caller.
Held(g) == IF g = None THEN {} ELSE {g[1]}
Owned(t, g) == Content(t) \cup Held(g)
HandedBack ==
  IF op'.name \in {"insert", "remove", "occupied_remove", "occupied_insert"}
    THEN Held(op'.ret) ELSE {}
Gone == (Owned(table, guard) \ Owned(table', guard')) \ HandedBack

\* The steps that write a value where it is, and those that store a value over
\* one of the same key without handing the old one back.
WriteOps == {"deref_mut", "and_modify", "occupied_get_mut", "into_mut",
             "iter_mut_in_place"}
ReplaceOps == {"guard_drop", "extend_item", "entry_insert"}

\* A value leaves the map and its guard only handed back to the caller (by
\* remove, OccupiedEntry::remove, insert), by a leaked guard, or replaced by a
\* value of its own key.
LeavesOnlyBy ==
  (Gone # {} /\ op'.name \notin WriteOps) =>
     \/ op'.name = "guard_forget"
     \/ /\ op'.name \in ReplaceOps
        /\ Gone \subseteq StoredUnder(table, extract_key(op'.arg[1]))

\* C4 as stated: values leave only by those ways, and releasing a guard puts
\* the held value back, destroys no value and leaves as many values as there
\* were before the get_mut call, whatever the caller did to the held value.
C4_ReleaseRestoresCount ==
  [][/\ LeavesOnlyBy
     /\ op'.name = "guard_drop" =>
          /\ guard[1] \in Content(table')
          /\ Gone = {}
          /\ len' = gh.len0]_vars

\* C4 as amended: values leave only by those ways, and releasing a guard puts
\* the held value back; when the caller moved it onto the key of another
\* stored value, that value is replaced and destroyed and the count is one
\* less than before get_mut; otherwise no value is destroyed and the count is
\* the one before get_mut.
C4_ReleaseReinserts ==
  [][/\ LeavesOnlyBy
     /\ op'.name = "guard_drop" =>
          /\ guard[1] \in Content(table')
          /\ IF extract_key(guard[1]) \in KeysOf(table)
               THEN /\ Gone = StoredUnder(table, extract_key(guard[1])) \ Held(guard)
                    /\ op'.ret # None
                    /\ len' = gh.len0 - 1
               ELSE /\ Gone = {}
                    /\ op'.ret = None
                    /\ len' = gh.len0]_vars

\* C4's case: a guard was released onto the key of another stored value.
C4_Witness ==
  /\ op.name = "guard_drop"
  /\ op.ret # None
  /\ op.ret # op.arg
  /\ extract_key(op.arg[1]) # op.key
  /\ op.arg[1] \in Content(table)

\* C5: releasing the guard of get_mut(k) leaves the held value found under its
\* key: under k when only other fields were written, and under k2, with
\* nothing under k, when the key field was set to k2.
C5_GuardProperty ==
  [][op'.name = "guard_drop" =>
       IF extract_key(guard[1]) = gh.k
         THEN GetIn(table', gh.k) = guard
         ELSE GetIn(table', gh.k) = None /\ GetIn(table', extract_key(guard[1])) = guard]_vars

\* C5's case: a guard was released with its key set to one that was free,
\* while another value is stored.
C5_Witness ==
  /\ op.name = "guard_drop"
  /\ op.ret = None
  /\ extract_key(op.arg[1]) # op.key
  /\ get(op.key) = None
  /\ get(extract_key(op.arg[1])) = op.arg
  /\ len = 2

\* While the guard of get_mut(k) is live, get(k), contains_key(k), a second
\* get_mut(k) and entry(k) all find nothing and len() is one less than before.
AbsentWhileHeld ==
  guard # None =>
    /\ get(gh.k) = None
    /\ ~contains_key(gh.k)
    /\ RemoveFrom(table, gh.k).ret = None
    /\ raw_entry(table, capacity, gh.k).e.kind = "Vacant"
    /\ len = gh.len0 - 1

\* C6 as stated: absence while the guard is live, and after its release
\* get(k) and contains_key(k) report presence again.
C6_PresentAgainUnderK ==
  /\ []AbsentWhileHeld
  /\ [][op'.name = "guard_drop" => GetIn(table', gh.k) # None]_vars

\* C6 as amended: absence while the guard is live; after its release the held
\* value is present under the key it has then, and k is present again exactly
\* when the caller left the key field k.
C6_PresentAgainUnderHeldKey ==
  /\ []AbsentWhileHeld
  /\ [][op'.name = "guard_drop" =>
          /\ GetIn(table', extract_key(guard[1])) = guard
          /\ (GetIn(table', gh.k) # None) <=> (extract_key(guard[1]) = gh.k)]_vars

\* C6's case: a guard is live, taken from a map of at least two values.
C6_Witness ==
  /\ guard # None
  /\ ~iter.live
  /\ op.name = "get_mut"
  /\ op.ret = guard
  /\ ~contains_key(gh.k)
  /\ len = gh.len0 - 1
  /\ len >= 1

\* A traversal has yielded every key of its snapshot and released each guard.
TraversalDone == iter.live /\ iter.keys = <<>> /\ guard = None

\* C7 as stated: a full traversal that rewrites the keys by an injective f
\* (it.inj) and leaks no guard leaves exactly the keys f(Ks), as many values
\* as before and no duplicates.
C7_AnyInjectiveRewrite ==
  (TraversalDone /\ it.inj /\ ~it.leaked) =>
     /\ KeysOf(table) = it.img
     /\ len = Cardinality(it.ks)
     /\ NoDuplicateKeys

\* C7 as amended: the same, for an injective f that maps no key of Ks onto
\* another key of Ks (~it.clash): such a value would replace, or be taken
\* for, the value still stored under that key.
C7_DisjointInjectiveRewrite ==
  (TraversalDone /\ it.inj /\ ~it.clash /\ ~it.leaked) =>
     /\ KeysOf(table) = it.img
     /\ len = Cardinality(it.ks)
     /\ NoDuplicateKeys

\* C7's case: a traversal of two values or more has finished and has moved a
\* key.
C7_Witness ==
  /\ TraversalDone
  /\ it.inj /\ ~it.clash /\ ~it.leaked
  /\ Cardinality(it.ks) >= 2
  /\ it.img # it.ks
  /\ KeysOf(table) = it.img

\* C8: insert(v) returns the value stored under v's key and keeps len() when
\* there is one, returns nothing and adds one to len() otherwise; get of v's
\* key then returns v, and what is stored under every other key is unchanged.
C8_InsertContract ==
  [][op'.name = "insert" =>
       LET v == op'.arg[1]
           k == extract_key(v)
       IN  /\ IF StoredUnder(table, k) # {}
                THEN /\ op'.ret # None
                     /\ StoredUnder(table, k) = {op'.ret[1]}
                     /\ len' = len
                ELSE /\ op'.ret = None
                     /\ len' = len + 1
           /\ GetIn(table', k) = Some(v)
           /\ \A j \in Keys \ {k} :
                /\ GetIn(table', j) = get(j)
                /\ StoredUnder(table', j) = StoredUnder(table, j)]_vars

\* C8's case: an insert into a map of three values has replaced a different
\* value of the same key.
C8_Witness ==
  op.name = "insert" /\ op.ret # None /\ op.ret # op.arg /\ len = 3

\* C9: remove(k) of a present key returns the value stored under k, leaves
\* nothing under k and one value less; remove(k) of an absent key returns
\* nothing and changes nothing; every other entry is unchanged.
C9_RemoveContract ==
  [][op'.name = "remove" =>
       LET k == op'.key
       IN  /\ IF StoredUnder(table, k) # {}
                THEN /\ op'.ret # None
                     /\ StoredUnder(table, k) = {op'.ret[1]}
                     /\ GetIn(table', k) = None
                     /\ len' = len - 1
                ELSE /\ op'.ret = None
                     /\ table' = table
           /\ \A j \in Keys \ {k} :
                /\ GetIn(table', j) = get(j)
                /\ StoredUnder(table', j) = StoredUnder(table, j)]_vars

\* C9's case: a remove has taken a value out of a map that keeps others.
C9_Witness ==
  op.name = "remove" /\ op.ret # None /\ len >= 1 /\ get(op.key) = None

\* C10: leaking the guard of get_mut(k) loses that one entry and nothing
\* else: the table is as get_mut left it, with one value less than before and
\* nothing under k, and from then on, as before, every key finds exactly the
\* value last stored under it (abs, which get_mut cleared for k).
C10_LeakLosesOneEntry ==
  /\ [](guard = None => /\ \A k \in Keys : get(k) = abs[k]
                        /\ len = Cardinality({k \in Keys : abs[k] # None}))
  /\ [][op'.name = "guard_forget" =>
          /\ table' = table
          /\ len' = gh.len0 - 1
          /\ GetIn(table', gh.k) = None
          /\ \A j \in Keys \ {gh.k} : GetIn(table', j) = abs[j]]_vars

\* C10's case: a guard was leaked and the map keeps other values.
C10_Witness ==
  /\ op.name = "guard_forget"
  /\ guard = None
  /\ get(op.key) = None
  /\ len >= 1

\* C11: entry(k) is Occupied exactly when contains_key(k) and Vacant
\* otherwise, and obtaining the entry, like dropping it unused, leaves len()
\* and every stored value as they were.
C11_EntryOccupancy ==
  [][/\ op'.name = "entry" =>
          /\ entry'.kind = IF contains_key(op'.key) THEN "Occupied" ELSE "Vacant"
          /\ entry'.key = op'.key
          /\ entry'.kind = "Occupied" => Some(table'[entry'.idx].v) = get(op'.key)
          /\ len' = len
          /\ SlotValues(table') = SlotValues(table)
          /\ \A k \in Keys : GetIn(table', k) = get(k)
     /\ op'.name = "entry_drop" => table' = table]_vars

\* C11's case: an entry was obtained for a stored key in a map of two values
\* or more.
C11_Witness ==
  /\ op.name = "entry"
  /\ entry.kind = "Occupied"
  /\ contains_key(op.key)
  /\ len >= 2

\* C12: and_modify(f) on an Occupied entry writes f's result over the stored
\* value where it is, so that get(k) returns it; on a Vacant entry f is not
\* called and the table is unchanged; len() and the entry's occupancy stay.
C12_AndModify ==
  [][op'.name = "and_modify" =>
       /\ IF entry.kind = "Occupied"
            THEN /\ op'.arg # None
                 /\ table' = [table EXCEPT ![entry.idx].v = op'.arg[1]]
                 /\ GetIn(table', entry.key) = op'.arg
            ELSE /\ op'.arg = None
                 /\ table' = table
       /\ len' = len
       /\ entry'.kind = entry.kind
       /\ entry'.key = entry.key]_vars

\* C12's case: and_modify has changed the stored value of one of two keys.
C12_Witness ==
  /\ op.name = "and_modify"
  /\ op.arg # None
  /\ op.arg # op.ret
  /\ get(op.key) = op.arg
  /\ len = 2

\* C13: or_insert(d) and or_insert_with(f) store the default only through a
\* Vacant entry, and len() grows by one; through an Occupied entry the stored
\* value is kept, len() stays and f is not called.  Either way the entry
\* returned is Occupied and its get() is the value stored under the key.
C13_OrInsert ==
  [][op'.name \in {"or_insert", "or_insert_with"} =>
       /\ IF entry.kind = "Occupied"
            THEN /\ table' = table
                 /\ op'.ret = Some(table[entry.idx].v)
                 /\ op'.name = "or_insert_with" => op'.arg = None
            ELSE /\ len' = len + 1
                 /\ op'.arg # None
                 /\ op'.ret = op'.arg
                 /\ {op'.arg[1]} = Content(table') \ Content(table)
                 /\ \A k \in Keys \ {entry.key} : GetIn(table', k) = get(k)
       /\ entry'.kind = "Occupied"
       /\ Some(table'[entry'.idx].v) = op'.ret
       /\ GetIn(table', entry.key) = op'.ret]_vars

\* C13's case: or_insert found a different value stored and kept it, in a map
\* of two values or more.
C13_Witness ==
  /\ op.name = "or_insert"
  /\ op.arg # op.ret
  /\ get(op.key) = op.ret
  /\ len >= 2

\* C14: Entry::insert(v) stores v through an Occupied entry (over the value
\* there, len() unchanged) and through a Vacant one (one more value), and the
\* entry it returns is Occupied with get() = v; OccupiedEntry::insert(v)
\* writes v over the stored value where it is, returns the value stored
\* before and leaves len() unchanged.
C14_EntryInsert ==
  [][/\ op'.name = "entry_insert" =>
          /\ IF entry.kind = "Occupied"
               THEN table' = [table EXCEPT ![entry.idx].v = op'.arg[1]]
               ELSE /\ len' = len + 1
                    /\ SlotValues(table) =
                         SlotValues(RemoveAt(table', entry'.idx))
          /\ entry'.kind = "Occupied"
          /\ Some(table'[entry'.idx].v) = op'.arg
          /\ GetIn(table', entry.key) = op'.arg
     /\ op'.name = "occupied_insert" =>
          /\ table' = [table EXCEPT ![entry.idx].v = op'.arg[1]]
          /\ op'.ret = Some(table[entry.idx].v)
          /\ GetIn(table', entry.key) = op'.arg
          /\ len' = len
          /\ entry' = entry]_vars

\* C14's case: Entry::insert has stored its value, the one value of its key,
\* in a map of two values or more.
C14_Witness ==
  /\ op.name = "entry_insert"
  /\ len >= 2
  /\ get(op.key) = op.arg
  /\ abs[op.key] = op.arg
  /\ Cardinality({i \in DOMAIN table : extract_key(table[i].v) = op.key}) = 1

\* What OccupiedEntry::remove does to the table: the entry's slot is vacated
\* and its value returned, the key is absent, len() is one less and the other
\* values stay.
RemoveVacates ==
  /\ op'.ret = Some(table[entry.idx].v)
  /\ table' = RemoveAt(table, entry.idx)
  /\ GetIn(table', entry.key) = None
  /\ len' = len - 1
  /\ \A k \in Keys \ {entry.key} : GetIn(table', k) = get(k)

\* C15 as stated: OccupiedEntry::remove vacates the slot, and yields a Vacant
\* entry for the same key through which a value can be stored without a new
\* probe.
C15_RemoveYieldsVacant ==
  [][op'.name = "occupied_remove" =>
       /\ RemoveVacates
       /\ entry'.kind = "Vacant"
       /\ entry'.key = entry.key]_vars

\* C15 as amended: OccupiedEntry::remove vacates the slot and returns the
\* value only: the entry is consumed and none is left to store through.
C15_RemoveConsumesEntry ==
  [][op'.name = "occupied_remove" =>
       /\ RemoveVacates
       /\ entry' = NoEntry]_vars

\* C15's case: an entry has removed its value from a map that keeps others,
\* and no entry is left.
C15_Witness ==
  /\ op.name = "occupied_remove"
  /\ op.ret # None
  /\ get(op.key) = None
  /\ entry.kind = "None"
  /\ len >= 1

\* Every value of t1 has in t2 a value of equal key and equal in full, and
\* the two hold as many values.
SameValues(t1, t2) ==
  /\ Len(t1) = Len(t2)
  /\ \A v \in Content(t1) :
       \E w \in Content(t2) : extract_key(v) = extract_key(w) /\ v = w

\* C16: a == b exactly when the maps hold as many values and every value of a
\* has an equal value of equal key in b; the result is the same with the
\* operands exchanged and depends on nothing but the values held, for maps
\* built by insert and remove in any order, under any hashers.
C16_EqOrderIndependent ==
  LET ab == eq(table, other.t, other.S)
      ba == eq(other.t, table, build_hasher)
  IN  /\ ab <=> SameValues(table, other.t)
      /\ ab <=> ba
      /\ ab <=> Content(table) = Content(other.t)

\* C16's case: two maps of two values in different orders under different
\* hashers compare equal, once an insert has replaced a value that differed.
C16_Witness ==
  /\ eq(table, other.t, other.S)
  /\ len = 2
  /\ SlotValues(table) # SlotValues(other.t)
  /\ build_hasher # other.S
  /\ op.name = "insert"
  /\ op.ret # None
  /\ op.ret # op.arg

\* C17: a map collected from iter() of a map is equal to that map, whichever
\* of the two is the left operand, whatever hasher the new map gets.
C17_RoundTrip ==
  (op.name = "from_iter" /\ other.xs = SlotValues(other.t)) =>
     /\ eq(table, other.t, other.S)
     /\ eq(other.t, table, build_hasher)

\* C17's case: a map of three values was collected into a map with another
\* hasher and another slot order.
C17_Witness ==
  /\ op.name = "from_iter"
  /\ other.xs = SlotValues(other.t)
  /\ Len(other.t) = 3
  /\ build_hasher # other.S
  /\ SlotValues(table) # SlotValues(other.t)
  /\ eq(table, other.t, other.S)

\* The last item of xs with key k, if any.
LastWith(xs, k) ==
  LET I == {i \in DOMAIN xs : extract_key(xs[i]) = k}
  IN  IF I = {} THEN None ELSE Some(xs[CHOOSE i \in I : \A j \in I : j <= i])

\* What was stored under k when the call began: nothing for from_iter, which
\* starts from an empty map.
StoredBefore(k) ==
  IF other.call = "extend" THEN GetIn(other.t, k) ELSE None

\* What inserting xs in order leaves under k.
AfterInserts(xs, k) ==
  IF LastWith(xs, k) # None THEN LastWith(xs, k) ELSE StoredBefore(k)

\* C18: from_iter(xs) leaves what inserting the items of xs in order into an
\* empty map leaves, and extend(xs) what inserting them in order into the
\* map leaves: under each key the last item of xs with that key, else what
\* was there before; this holds after every item and when the call returns.
C18_BulkIsRepeatedInsert ==
  other.call # "" =>
     /\ \A k \in Keys : get(k) = AfterInserts(other.xs, k)
     /\ len = Cardinality({k \in Keys : AfterInserts(other.xs, k) # None})
     /\ NoDuplicateKeys

\* C18's case: extend has returned after two different items of one key that
\* was stored before, in a map of two values or more.
C18_Witness ==
  /\ op.name = "extend"
  /\ Len(other.xs) = 2
  /\ extract_key(other.xs[1]) = extract_key(other.xs[2])
  /\ other.xs[1] # other.xs[2]
  /\ GetIn(other.t, extract_key(other.xs[2])) \notin {None, Some(other.xs[2])}
  /\ get(extract_key(other.xs[2])) = Some(other.xs[2])
  /\ len >= 2

\* C19: an iter_mut traversal starts with as many keys to visit as the map
\* holds values (none for an empty map); every step that yields takes one of
\* them, a key the map held when iter_mut was called, and nothing adds one,
\* whatever keys the caller writes; with none left every step reports
\* exhaustion and changes nothing.  A traversal that is driven on therefore
\* comes to have no key left and no guard out (unless it is dropped first).
C19_TraversalTerminates ==
  /\ iter.live ~> (~iter.live \/ (iter.keys = <<>> /\ guard = None))
  /\ [][/\ op'.name = "iter_mut" =>
             /\ Len(iter'.keys) = len
             /\ {iter'.keys[i] : i \in DOMAIN iter'.keys} = KeysOf(table)
        /\ (iter.live /\ iter'.live) => Len(iter'.keys) <= Len(iter.keys)
        /\ op'.name = "next" =>
             IF iter.keys = <<>>
               THEN /\ op'.ret = None
                    /\ guard' = None
                    /\ iter' = iter
                    /\ table' = table
               ELSE /\ Len(iter'.keys) = Len(iter.keys) - 1
                    /\ op'.key \in it.ks
                    /\ op'.ret # None
                    /\ guard' = op'.ret]_vars

\* C19's case: a traversal of two values or more that wrote a key the map
\* did not hold has reported exhaustion.
C19_Witness ==
  /\ op.name = "next"
  /\ op.ret = None
  /\ iter.live
  /\ iter.keys = <<>>
  /\ Cardinality(it.ks) >= 2
  /\ it.img \ it.ks # {}
  /\ ~it.leaked


\* C20: for a key no stored value has, get returns nothing and contains_key
\* false, and get_mut returns nothing, makes no guard and leaves the table as
\* it is; contains_key(k) is true exactly when get(k) returns a value.
C20_AbsentIsEmpty ==
  /\ [](\A k \in Keys :
          /\ contains_key(k) <=> get(k) # None
          /\ StoredUnder(table, k) = {} => (get(k) = None /\ ~contains_key(k)))
  /\ [][(op'.name = "get_mut" /\ StoredUnder(table, op'.key) = {}) =>
          /\ op'.ret = None
          /\ guard' = None
          /\ table' = table
          /\ capacity' = capacity]_vars

\* C20's case: get_mut found nothing under a key whose hash a stored value
\* shares, in a map of two values or more.
C20_Witness ==
  /\ op.name = "get_mut"
  /\ op.ret = None
  /\ guard = None
  /\ get(op.key) = None
  /\ \E i \in DOMAIN table : table[i].h = hash_one(build_hasher, op.key)
  /\ len >= 2

\* The values sequence xs holds.
Range(xs) == {xs[i] : i \in DOMAIN xs}

\* C21: an iterator made by iter() or into_iter() never yields a value twice,
\* yields stored values only, and by the time it reports exhaustion has
\* yielded every stored value: len() items.  iter() and every step of an
\* iterator leave the table as it is; iter() starts at the first slot
\* whatever other iterators have done, and a step of one iterator leaves the
\* others where they are.
C21_IterYieldsEachOnce ==
  /\ [](\A i \in DOMAIN iters :
          LET c == iters[i]
          IN  /\ \A a, b \in DOMAIN c.out : c.out[a] = c.out[b] => a = b
              /\ Range(c.out) \subseteq Content(Walked(c))
              /\ c.done => /\ Len(c.out) = Len(Walked(c))
                           /\ Range(c.out) = Content(Walked(c))
              /\ c.kind = "ref" /\ c.done => Len(c.out) = len)
  /\ [][/\ op'.name = "iter" =>
             /\ table' = table
             /\ capacity' = capacity
             /\ Len(iters') = Len(iters) + 1
             /\ iters'[Len(iters')].out = <<>>
             /\ ~iters'[Len(iters')].done
             /\ \A j \in DOMAIN iters : iters'[j] = iters[j]
        /\ op'.name = "iter_next" =>
             /\ iters[op'.key].kind = "ref" => table' = table
             /\ \A j \in DOMAIN iters \ {op'.key} : iters'[j] = iters[j]
        /\ op'.name = "into_iter" =>
             /\ Content(Walked(iters'[1])) = Content(table)
             /\ Len(Walked(iters'[1])) = len]_vars

\* C21's case: of two iterators over a map of three values the first has
\* yielded all three and reported exhaustion, the second one value so far.
C21_Witness ==
  /\ Len(iters) = 2
  /\ len = 3
  /\ iters[1].done
  /\ Len(iters[1].out) = 3
  /\ Len(iters[2].out) = 1
  /\ op.name = "iter_next"

\* C22: deserialize returns the map from_iter builds from the document's
\* records, the outer keys of a map document left aside: every record was
\* inserted, in order, so each key holds the last record with that key; and
\* two documents that hold the same records in the same order, whatever
\* their shapes and outer keys, give equal maps.
C22_DeserializeShapes ==
  op.name = "deserialize" =>
    LET n == Len(wire)
    IN  /\ other.xs = RecordsOf(wire[n])
        /\ \A k \in Keys : get(k) = LastWith(RecordsOf(wire[n]), k)
        /\ len = Cardinality({extract_key(v) : v \in Range(RecordsOf(wire[n]))})
        /\ (n >= 2 /\ RecordsOf(wire[n - 1]) = RecordsOf(wire[n])) =>
             /\ eq(table, other.t, other.S)
             /\ eq(other.t, table, build_hasher)

\* C22's case: a sequence of two records of different keys, then a map that
\* holds them under one and the same outer key, deserialized into maps with
\* different hashers.
C22_Witness ==
  /\ op.name = "deserialize"
  /\ Len(wire) = 2
  /\ wire[1].shape = "seq"
  /\ wire[2].shape = "map"
  /\ Len(wire[2].items) = 2
  /\ wire[2].items[1].key = wire[2].items[2].key
  /\ extract_key(wire[2].items[1].value) # extract_key(wire[2].items[2].value)
  /\ len = 2
  /\ build_hasher # other.S
  /\ eq(table, other.t, other.S)

\* Slot i of table t was stored with another hash than the one of the key its
\* value has now.
Misplaced(t, i) == t[i].h # hash_one(build_hasher, extract_key(t[i].v))

\* A step through OccupiedEntry::get_mut, OccupiedEntry::into_mut or
\* Entry::and_modify that changes the key of the stored value, in a map whose
\* caller has kept the key contract until then.
EntryMovesKey ==
  /\ op'.name \in {"and_modify", "occupied_get_mut", "into_mut"}
  /\ entry.kind = "Occupied"
  /\ misuse = {}
  /\ op'.arg # None
  /\ extract_key(op'.arg[1]) # entry.key

\* Such a step writes the value where it is: the slot keeps its place and the
\* hash it was stored with, no value is added or removed, the capacity stays
\* and get of the old key finds nothing.
MutatesInPlace ==
  EntryMovesKey =>
    /\ table' = [table EXCEPT ![entry.idx].v = op'.arg[1]]
    /\ table'[entry.idx].h = hash_one(build_hasher, entry.key)
    /\ len' = len
    /\ capacity' = capacity
    /\ GetIn(table', entry.key) = None

\* A step that leaves every slot's value as it is and after which a misplaced
\* slot is stored with the hash of its value's key.
Rehomes ==
  /\ SlotValues(table') = SlotValues(table)
  /\ \E i \in DOMAIN table : Misplaced(table, i) /\ ~Misplaced(table', i)

C24_HashIndependent ==
  /\ [](/\ \A k \in Keys : /\ get(k) = abs[k]
                           /\ contains_key(k) <=> abs[k] # None
        /\ len = Cardinality({k \in Keys : abs[k] # None}))
  /\ [][/\ op'.name = "insert" =>
             /\ op'.ret = abs[op'.key]
             /\ abs' = [abs EXCEPT ![op'.key] = op'.arg]
        /\ op'.name \in {"remove", "get_mut"} =>
             /\ op'.ret = abs[op'.key]
             /\ abs' = [abs EXCEPT ![op'.key] = None]
        /\ op'.name = "guard_drop" =>
             /\ op'.ret = abs[extract_key(guard[1])]
             /\ abs' = [abs EXCEPT ![extract_key(guard[1])] = guard]]_vars

\* C24's case: under the hasher that gives every key the same hash, a guard
\* taken from a map of three values was released with its key changed; a
\* stored value made way for it and two values are left.
C24_Witness ==
  /\ build_hasher = 1
  /\ len = 2
  /\ \A i, j \in DOMAIN table : table[i].h = table[j].h
  /\ op.name = "guard_drop"
  /\ extract_key(op.arg[1]) # op.key
  /\ op.ret # None
  /\ get(extract_key(op.arg[1])) = op.arg

\* C25: when a guard is released with the key of its value changed to a key
\* k2 that a stored value has, the release is an insert: the held value takes
\* the place of that value, which insert hands back to drop and drop lets go
\* of, so that neither the map nor a guard holds it afterwards; get(k2)
\* returns the held value, every other key finds what it found, and len() is
\* one less than before the get_mut call.
C25_ReleaseOntoOccupied ==
  [][(/\ op'.name = "guard_drop"
      /\ extract_key(guard[1]) # gh.k
      /\ StoredUnder(table, extract_key(guard[1])) # {}) =>
       LET k2 == extract_key(guard[1])
       IN  /\ op'.ret # None
           /\ StoredUnder(table, k2) = {op'.ret[1]}
           /\ GetIn(table', k2) = guard
           /\ StoredUnder(table', k2) = {guard[1]}
           /\ guard' = None
           /\ Owned(table', guard') =
                (Owned(table, guard) \ StoredUnder(table, k2)) \cup {guard[1]}
           /\ len' = len
           /\ len' = gh.len0 - 1
           /\ GetIn(table', gh.k) = None
           /\ \A j \in Keys \ {k2} : GetIn(table', j) = get(j)]_vars

\* C25's case: outside a traversal, a guard taken from a map of three values
\* was released onto the key of another value, which differed from it in
\* more than the key; two values are left.
C25_Witness ==
  /\ op.name = "guard_drop"
  /\ ~iter.live
  /\ extract_key(op.arg[1]) # op.key
  /\ op.ret # None
  /\ op.ret[1].name # op.arg[1].name
  /\ op.ret[1] \notin Content(table)
  /\ get(extract_key(op.arg[1])) = op.arg
  /\ get(op.key) = None
  /\ len = 2

\* C26: a traversal has as many keys to visit as the map held values when
\* iter_mut was called, each of them once; as long as it lives, every key
\* still to be visited is present in the table, whatever keys the released
\* guards carried.  So a step yields a guard, for the value under the next
\* key, whenever a key is left, and exhaustion is reported only when none is:
\* after one guard for each of the n keys.
C26_NeverEndsEarly ==
  /\ [](iter.live =>
          /\ \A a, b \in DOMAIN iter.keys : iter.keys[a] = iter.keys[b] => a = b
          /\ Range(iter.keys) \subseteq it.ks
          /\ \A k \in Range(iter.keys) : contains_key(k))
  /\ [][/\ op'.name = "iter_mut" =>
             /\ Len(iter'.keys) = len
             /\ Cardinality(it'.ks) = len
             /\ Range(iter'.keys) = it'.ks
        /\ op'.name = "next" =>
             /\ op'.ret = None <=> iter.keys = <<>>
             /\ op'.ret = None => Cardinality(it.ks \ Range(iter'.keys)) = Cardinality(it.ks)
             /\ op'.ret # None =>
                  /\ op'.key = Head(iter.keys)
                  /\ iter'.keys = Tail(iter.keys)
                  /\ extract_key(op'.ret[1]) = op'.key
                  /\ guard' = op'.ret]_vars

\* C26's case: a traversal of three values reports exhaustion with every
\* guard released, after a guard's value was moved onto the key of another
\* of the three and took its place.
C26_Witness ==
  /\ op.name = "next"
  /\ op.ret = None
  /\ iter.live
  /\ iter.keys = <<>>
  /\ Cardinality(it.ks) = 3
  /\ it.clash
  /\ ~it.leaked
  /\ len < 3
====
